---- MODULE Spec2Model ----
(***************************************************************************)
(* Model of interview_agent/linkedin_tool/jobspy_tools.py: the job search  *)
(* aggregator scrape_jobs_tool and its helper _trim_description.           *)
(*                                                                         *)
(* Python values that may be null are modelled as cells                    *)
(*     [kind |-> "None" | "NaN" | "val", v |-> payload]                    *)
(* so that None (falsy, pd.isna) and float NaN (truthy, pd.isna) stay      *)
(* distinct.  For the remote flag the payload is the Python truth value of *)
(* the value held.  A returned string is modelled as the sequence of its   *)
(* lines, each line a record [tag, parts] whose parts are the pieces the   *)
(* source's f-string concatenates.                                         *)
(***************************************************************************)
EXTENDS Integers, Sequences, FiniteSets, TLC

VARIABLES
    pc,            \* "idle" | "scrape_jobs" (blocked in the call, line 67) | "done"
    search_term,   \* argument
    location,      \* argument, cell of string
    site_name,     \* argument, cell of sequence of site ids
    sites,         \* local, line 57
    calls,         \* number of times scrape_jobs was invoked by this call
    outcome,       \* what the collaborator did: "none" | "raised" | "returned"
    exc,           \* the reason the collaborator raised with
    jobs_df,       \* the frame the collaborator returned
    result         \* how the call ended: [kind, text, error]

vars == <<pc, search_term, location, site_name, sites, calls, outcome, exc,
          jobs_df, result>>

-----------------------------------------------------------------------------
(* Bounds *)

MaxRows == 2

MaxExtra == 3

-----------------------------------------------------------------------------
(* Cells *)

NoneCell(pad) == [kind |-> "None", v |-> pad]

NaNCell(pad) == [kind |-> "NaN", v |-> pad]

Val(x) == [kind |-> "val", v |-> x]

\* pd.notna(x)
notna(c) == c.kind = "val"

\* bool(x) for a cell holding a bool: None is falsy, float('nan') is truthy
truthy(c) ==
    CASE c.kind = "None" -> FALSE
      [] c.kind = "NaN" -> TRUE
      [] OTHER -> c.v

\* str(x) / f"{x}" for a cell holding a string
Str(c) ==
    CASE c.kind = "None" -> "None"
      [] c.kind = "NaN" -> "nan"
      [] OTHER -> c.v

Line(tag, parts) == [tag |-> tag, parts |-> parts]

-----------------------------------------------------------------------------
(* Module constants *)

_DEFAULT_SITES == <<"indeed", "linkedin", "zip_recruiter", "google">>

_VALID_SITES ==
    {"linkedin", "indeed", "glassdoor", "zip_recruiter", "google", "bayt",
     "naukri", "bdjobs"}

\* sorted(_VALID_SITES)
sorted_VALID_SITES ==
    <<"bayt", "bdjobs", "glassdoor", "google", "indeed", "linkedin", "naukri",
      "zip_recruiter">>

limit == 300

Ellipsis == <<".", ".", ".">>

\* the comparison written < instead of <=
_trim_description_strict(text) ==
    IF Len(text) < limit THEN text ELSE SubSeq(text, 1, limit) \o Ellipsis

\* text if len(text) <= limit else f"{text[:limit]}..."
_trim_description(text) ==
    IF Len(text) <= limit THEN text ELSE SubSeq(text, 1, limit) \o Ellipsis

-----------------------------------------------------------------------------
(* Numbers *)

RECURSIVE SumOver(_, _)
\* the sum of f[k] over the finite set S
SumOver(f, S) ==
    IF S = {} THEN 0
    ELSE LET k == CHOOSE x \in S : TRUE IN f[k] + SumOver(f, S \ {k})

\* f"{num/den:,.0f}": the nearest integer, a tie going to the even neighbour
\* (the thousands separators do not change the number shown)
Fmt0f(num, den) ==
    LET q == num \div den
        r == num % den
    IN  IF 2 * r < den THEN q
        ELSE IF 2 * r > den THEN q + 1
        ELSE IF q % 2 = 0 THEN q ELSE q + 1

-----------------------------------------------------------------------------
(* The collaborator's frame: [columns, rows] *)

StrColumns ==
    {"title", "company", "location", "site", "job_type", "date_posted",
     "currency", "interval", "job_url", "company_industry", "job_level",
     "skills", "experience_range", "company_rating"}

AllColumns == StrColumns \cup {"min_amount", "max_amount", "is_remote", "description"}

\* str.title() on the strings the model uses
title_case(s) ==
    CASE s = "indeed" -> "Indeed"
      [] s = "linkedin" -> "Linkedin"
      [] s = "glassdoor" -> "Glassdoor"
      [] s = "google" -> "Google"
      [] s = "zip_recruiter" -> "Zip_Recruiter"
      [] s = "bayt" -> "Bayt"
      [] s = "naukri" -> "Naukri"
      [] s = "bdjobs" -> "Bdjobs"
      [] s = "N/A" -> "N/A"

\* job.get(col, default) on a row of the frame df
get(df, job, col, default) == IF col \in df.columns THEN job[col] ELSE default

\* the frame tested against None instead of for emptiness
empty_is_none(df) == FALSE

\* jobs_df.empty
empty(df) == Len(df.rows) = 0 \/ df.columns = {}

\* job.get('site', 'N/A').title() raises AttributeError unless it is a str
site_raises(df, job) == ~notna(get(df, job, "site", Val("N/A")))

\* the remote marker of one listing, lines 119-120
remote_marker(df, job) ==
    IF truthy(get(df, job, "is_remote", NoneCell(FALSE)))
    THEN <<Line("remote", <<"Remote work available">>)>>
    ELSE <<>>

\* the salary line of one listing, lines 110-117
salary_line(df, job) ==
    LET lo == get(df, job, "min_amount", NoneCell(0))
        hi == get(df, job, "max_amount", NoneCell(0))
    IN  IF notna(lo) /\ notna(hi)
        THEN <<Line("salary",
                    <<"Salary: ", Fmt0f(lo.v, 1), " - ", Fmt0f(hi.v, 1), " ",
                      Str(get(df, job, "currency", Val("USD"))), " (",
                      Str(get(df, job, "interval", Val("yearly"))), ")">>)>>
        ELSE <<>>

\* if pd.notna(job.get(col)): listing_parts.append(f"{prefix}{job.get(col)}{suffix}")
optional_line(df, job, col, tag, prefix, suffix) ==
    LET c == get(df, job, col, NoneCell(""))
    IN  IF notna(c) THEN <<Line(tag, <<prefix, Str(c)>> \o suffix)>> ELSE <<>>

\* the description line of one listing, lines 125-127
description_line(df, job) ==
    LET c == get(df, job, "description", NoneCell(<<>>))
    IN  IF notna(c)
        THEN <<Line("description", <<"Description: ", _trim_description(c.v)>>)>>
        ELSE <<>>

\* enumerate() without start=1
enumerate_from_zero == 1 - 1

\* first value enumerate(..., start=1) yields
enumerate_start == 1

\* listing_parts of the row at position k of the frame (lines 99-140)
listing_parts(df, k) ==
    LET job == df.rows[k]
        index == k - 1 + enumerate_start
    IN  <<Line("title", <<index, ". ", Str(get(df, job, "title", Val("N/A")))>>),
          Line("company", <<"Company: ", Str(get(df, job, "company", Val("N/A")))>>),
          Line("location", <<"Location: ", Str(get(df, job, "location", Val("N/A")))>>),
          Line("source", <<"Source: ", title_case(get(df, job, "site", Val("N/A")).v)>>)>>
        \o optional_line(df, job, "job_type", "job_type", "Type: ", <<>>)
        \o optional_line(df, job, "date_posted", "date_posted", "Posted: ", <<>>)
        \o salary_line(df, job)
        \o remote_marker(df, job)
        \o optional_line(df, job, "job_url", "job_url", "Apply: ", <<>>)
        \o description_line(df, job)
        \o optional_line(df, job, "company_industry", "company_industry", "Industry: ", <<>>)
        \o optional_line(df, job, "job_level", "job_level", "Level: ", <<>>)
        \o optional_line(df, job, "skills", "skills", "Skills: ", <<>>)
        \o optional_line(df, job, "experience_range", "experience_range", "Experience: ", <<>>)
        \o optional_line(df, job, "company_rating", "company_rating", "Company Rating: ", <<"/5">>)

RECURSIVE join_listings(_, _)
\* "\n---\n".join(listings), as lines, for the rows k..len
join_listings(df, k) ==
    IF k > Len(df.rows) THEN <<>>
    ELSE listing_parts(df, k)
         \o (IF k < Len(df.rows) THEN <<Line("separator", <<"---">>)>> ELSE <<>>)
         \o join_listings(df, k + 1)

\* astype(bool) without fillna(False): a NaN flag converts to True
remote_count_no_fillna(df) ==
    IF "is_remote" \in df.columns
    THEN Cardinality({k \in 1..Len(df.rows) : truthy(df.rows[k].is_remote)})
    ELSE 0

\* remote_count, lines 142-146
remote_count(df) ==
    IF "is_remote" \in df.columns
    THEN Cardinality({k \in 1..Len(df.rows) :
                        LET c == df.rows[k].is_remote
                        IN  IF notna(c) THEN c.v ELSE FALSE})
    ELSE 0

\* the mask built from the lower bound alone
salary_mask_min_only(df) == {k \in 1..Len(df.rows) : notna(df.rows[k].min_amount)}

\* the rows salary_mask selects, line 162
salary_mask(df) ==
    {k \in 1..Len(df.rows) :
        notna(df.rows[k].min_amount) /\ notna(df.rows[k].max_amount)}

\* the salary lines of the summary, lines 159-172
salary_summary(df) ==
    IF "min_amount" \in df.columns /\ "max_amount" \in df.columns
    THEN LET salary_jobs == salary_mask(df)
             n == Cardinality(salary_jobs)
             mins == [k \in salary_jobs |-> df.rows[k].min_amount.v]
             maxs == [k \in salary_jobs |-> df.rows[k].max_amount.v]
         IN  IF n # 0
             THEN <<Line("salary_count", <<"Jobs with salary info: ", n>>),
                    Line("salary_avg",
                         <<"Average salary range: ", Fmt0f(SumOver(mins, salary_jobs), n),
                           " - ", Fmt0f(SumOver(maxs, salary_jobs), n)>>)>>
             ELSE <<>>
    ELSE <<>>

\* if location: (None and "" are falsy)
location_given(loc) == loc.kind = "val" /\ loc.v # ""

\* results_summary, lines 94-96
results_summary(df, term, loc) ==
    Line("header",
         <<"Found ", Len(df.rows), " jobs for '", term, "'">>
         \o (IF location_given(loc) THEN <<" in ", loc.v>> ELSE <<>>))

\* summary_lines joined by "\n", lines 148-175
report(df, term, loc, ss) ==
    <<results_summary(df, term, loc), Line("blank", <<"">>)>>
    \o join_listings(df, 1)
    \o <<Line("blank", <<"">>),
         Line("summary", <<"Search Summary">>),
         Line("total", <<"Total jobs found: ", Len(df.rows)>>),
         Line("sites", <<"Sites searched: ", ss>>),
         Line("remote_count", <<"Remote jobs: ", remote_count(df)>>)>>
    \o salary_summary(df)

-----------------------------------------------------------------------------
(* Validation and the three early returns *)

\* only the first requested site is validated
invalid_sites_first_only(ss) ==
    IF ss # <<>> /\ Head(ss) \notin _VALID_SITES THEN <<Head(ss)>> ELSE <<>>

RECURSIVE invalid_sites(_)
\* [site for site in sites if site not in _VALID_SITES], line 59
invalid_sites(ss) ==
    IF ss = <<>> THEN <<>>
    ELSE (IF Head(ss) \notin _VALID_SITES THEN <<Head(ss)>> ELSE <<>>)
         \o invalid_sites(Tail(ss))

\* the string returned at lines 61-64
invalid_sites_error(bad) ==
    <<Line("error_invalid",
           <<"Error: invalid site names", ": ", bad, ". Valid sites: ",
             sorted_VALID_SITES>>)>>

\* the failure reason left out of the message
scraping_error_generic(reason) == <<Line("error_scraping", <<"Error scraping jobs: ">>)>>

\* the string returned at line 85
scraping_error(reason) == <<Line("error_scraping", <<"Error scraping jobs: ", reason>>)>>

\* the string returned at lines 89-92
no_jobs_found ==
    <<Line("no_jobs",
           <<"No jobs found", " that match your criteria. ",
             "Try adjusting your search parameters.">>)>>

Returned(text) == [kind |-> "returned", text |-> text, error |-> ""]

Raised(error) == [kind |-> "raised", text |-> <<>>, error |-> error]

Pending == [kind |-> "pending", text |-> <<>>, error |-> ""]

\* lines 87-175: what the call does with the frame the collaborator returned
format_jobs(df, term, loc, ss) ==
    IF empty(df) THEN Returned(no_jobs_found)
    ELSE IF \E k \in 1..Len(df.rows) : site_raises(df, df.rows[k])
    THEN Raised("AttributeError")
    ELSE Returned(report(df, term, loc, ss))

-----------------------------------------------------------------------------
(* Inputs: the requests, the collaborator's outcomes, the descriptions *)

Chars == <<"a", ".", " ">>

\* a description text of n characters
Desc(n) == [i \in 1..n |-> Chars[(i % 3) + 1]]

Absent == [c \in StrColumns |-> NaNCell("")]

\* a row with nothing but the four leading fields
Minimal ==
    [Absent EXCEPT !["title"] = Val("Dev"), !["company"] = Val("Acme"),
                   !["location"] = Val("Berlin"), !["site"] = Val("indeed")]
    @@ [min_amount |-> NaNCell(0), max_amount |-> NaNCell(0),
        is_remote |-> NoneCell(FALSE), description |-> NoneCell(<<>>)]

\* a row with every field set
Full ==
    [[c \in StrColumns |-> Val(c)] EXCEPT !["site"] = Val("linkedin")]
    @@ [min_amount |-> Val(2), max_amount |-> Val(5), is_remote |-> Val(TRUE),
        description |-> Val(Desc(2))]

OddRow ==
    [Minimal EXCEPT !["job_type"] = Val("fulltime"), !["job_url"] = Val("http://j/1"),
                    !["job_level"] = Val("senior"), !["experience_range"] = Val("3-5"),
                    !["description"] = Val(Desc(1))]

EvenRow ==
    [Minimal EXCEPT !["site"] = Val("zip_recruiter"),
                    !["date_posted"] = Val("2025-01-01"),
                    !["company_industry"] = Val("software"),
                    !["skills"] = Val("python"), !["company_rating"] = Val("4.5"),
                    !["currency"] = Val("EUR"), !["is_remote"] = Val(FALSE)]

RemoteRows ==
    {[Minimal EXCEPT !["is_remote"] = c] : c \in {Val(TRUE), NaNCell(FALSE)}}
    \cup {[Full EXCEPT !["is_remote"] = NaNCell(FALSE)]}

SalaryRows ==
    {[Minimal EXCEPT !["min_amount"] = lo, !["max_amount"] = hi] :
        <<lo, hi>> \in {<<Val(1), NaNCell(0)>>, <<NoneCell(0), Val(9)>>,
                        <<Val(1), Val(2)>>, <<Val(4), Val(7)>>}}

NullSiteRows ==
    {[Minimal EXCEPT !["site"] = c] : c \in {NoneCell(""), NaNCell("")}}

LongRows ==
    {[Minimal EXCEPT !["description"] = Val(Desc(n))] : n \in {limit, limit + 1}}

\* rows with every field set but one
AllButOneRows ==
    {[Full EXCEPT ![c] = NaNCell("")] :
        c \in {"job_type", "job_url", "skills", "company_rating"}}

RowSet ==
    {Minimal, Full, OddRow, EvenRow, [Minimal EXCEPT !["title"] = NoneCell("")]}
    \cup AllButOneRows
    \cup RemoteRows \cup SalaryRows \cup NullSiteRows \cup LongRows

\* one-row frames whose description has every length up to limit + MaxExtra
DescFrames ==
    {[columns |-> AllColumns,
      rows |-> <<[Minimal EXCEPT !["description"] = Val(Desc(n))]>>] :
        n \in 0..(limit + MaxExtra)}

\* the columns the collaborator's frame may come with
ColumnSets ==
    {AllColumns, AllColumns \ {"is_remote"}, AllColumns \ {"max_amount", "currency"},
     AllColumns \ {"site", "title", "description"}}

Frames ==
    {[columns |-> {}, rows |-> <<>>]}
    \cup DescFrames
    \cup {[columns |-> cs, rows |-> rs] :
            cs \in ColumnSets, rs \in UNION {[1..n -> RowSet] : n \in 0..MaxRows}}

Reasons == {"timeout", "429 Too Many Requests"}

Requests ==
    {[search_term |-> "python developer", location |-> NoneCell(""),
      site_name |-> NoneCell(<<>>)],
     [search_term |-> "python developer", location |-> Val("Berlin"),
      site_name |-> Val(<<"glassdoor", "indeed">>)],
     [search_term |-> "nurse", location |-> Val(""),
      site_name |-> Val(<<"indeed">>)],
     [search_term |-> "nurse", location |-> Val("Berlin"),
      site_name |-> Val(<<"indeed", "monster">>)],
     [search_term |-> "nurse", location |-> NoneCell(""),
      site_name |-> Val(<<"monster", "indeed", "dice">>)]}

-----------------------------------------------------------------------------
(* The call *)

NoFrame == [columns |-> {}, rows |-> <<>>]

Init ==
    /\ pc = "idle"
    /\ search_term = ""
    /\ location = NoneCell("")
    /\ site_name = NoneCell(<<>>)
    /\ sites = <<>>
    /\ calls = 0
    /\ outcome = "none"
    /\ exc = ""
    /\ jobs_df = NoFrame
    /\ result = Pending

\* lines 56-82: validation, then the blocking call to scrape_jobs
InvokeWith(req) ==
    /\ search_term' = req.search_term
    /\ location' = req.location
    /\ site_name' = req.site_name
    /\ sites' = IF req.site_name.kind # "None" THEN req.site_name.v ELSE _DEFAULT_SITES
    /\ IF invalid_sites(sites') # <<>>
       THEN /\ result' = Returned(invalid_sites_error(invalid_sites(sites')))
            /\ pc' = "done"
            /\ calls' = calls
       ELSE /\ result' = result
            /\ pc' = "scrape_jobs"
            /\ calls' = calls + 1
    /\ UNCHANGED <<outcome, exc, jobs_df>>

\* lines 83-85: scrape_jobs raised
ScrapeRaisesWith(reason) ==
    /\ outcome' = "raised"
    /\ exc' = reason
    /\ result' = Returned(scraping_error(reason))
    /\ pc' = "done"
    /\ UNCHANGED <<search_term, location, site_name, sites, calls, jobs_df>>

\* lines 87-175: scrape_jobs returned a frame
ScrapeReturnsWith(df) ==
    /\ outcome' = "returned"
    /\ jobs_df' = df
    /\ result' = format_jobs(df, search_term, location, sites)
    /\ pc' = "done"
    /\ UNCHANGED <<search_term, location, site_name, sites, calls, exc>>

\* the caller makes the call
Invoke == pc = "idle" /\ \E req \in Requests : InvokeWith(req)

\* the collaborator answers while the call is blocked in it
ScrapeRaises == pc = "scrape_jobs" /\ \E reason \in Reasons : ScrapeRaisesWith(reason)

ScrapeReturns == pc = "scrape_jobs" /\ \E df \in Frames : ScrapeReturnsWith(df)

Next == Invoke \/ ScrapeRaises \/ ScrapeReturns

Spec == Init /\ [][Next]_vars

-----------------------------------------------------------------------------
(* Reading a returned string back *)

Text == result.text

Ended == pc = "done"

IsReport ==
    /\ Ended /\ outcome = "returned" /\ result.kind = "returned"
    /\ Len(jobs_df.rows) > 0 /\ jobs_df.columns # {}

Positions(tag) == {i \in 1..Len(Text) : Text[i].tag = tag}

\* the only line carrying the tag
TheLine(tag) == Text[CHOOSE i \in Positions(tag) : TRUE]

\* where the k-th listing block starts: at the k-th title line
BlockStart(k) ==
    LET titles == Positions("title")
    IN  CHOOSE i \in titles : Cardinality({j \in titles : j < i}) = k - 1

\* the line that ends the k-th listing block: the next separator or blank line
BlockStop(k) ==
    LET start == BlockStart(k)
        stops == {j \in (start + 1)..Len(Text) : Text[j].tag \in {"separator", "blank"}}
    IN  CHOOSE j \in stops : \A m \in stops : j <= m

Block(k) == SubSeq(Text, BlockStart(k), BlockStop(k) - 1)

BlockTags(k) == LET B == Block(k) IN [i \in 1..Len(B) |-> B[i].tag]

\* the field is there for the row: its column exists and its value is not null
Present(df, k, col) == col \in df.columns /\ df.rows[k][col].kind = "val"

\* the remote flag of the row is set
RemoteSet(df, k) == Present(df, k, "is_remote") /\ df.rows[k].is_remote.v

BothBounds(df, k) == Present(df, k, "min_amount") /\ Present(df, k, "max_amount")

\* what a mandatory field shows: its value, the text of a null, or the default
Shown(df, k, col) ==
    IF col \notin df.columns THEN "N/A"
    ELSE IF df.rows[k][col].kind = "val" THEN df.rows[k][col].v
    ELSE IF df.rows[k][col].kind = "NaN" THEN "nan" ELSE "None"

\* a is s/m rounded to an integer
IsRounded(a, s, m) == 2 * m * a - 2 * s <= m /\ 2 * s - 2 * m * a <= m

-----------------------------------------------------------------------------
(* Claims *)

\* C1: whenever a requested site id is outside the valid-site set, the call has
\* returned a string starting with "Error: invalid site names" and the scraping
\* collaborator was never invoked.
C1_InvalidSitesRejected ==
    (\E i \in 1..Len(sites) : sites[i] \notin _VALID_SITES) =>
        /\ Ended
        /\ result.kind = "returned"
        /\ Len(Text) = 1
        /\ Text[1].parts[1] = "Error: invalid site names"
        /\ calls = 0
        /\ outcome = "none"

C1_Witness ==
    /\ Ended /\ result.kind = "returned"
    /\ Len(sites) = 2 /\ sites[1] \in _VALID_SITES /\ sites[2] \notin _VALID_SITES

\* C2: the call never raises outward: whatever the collaborator does (raises,
\* returns no rows, returns rows with null fields, the source site included),
\* the call ends by returning a string.
C2_NeverRaises == Ended => result.kind = "returned"

\* C3: with only valid site ids, when the collaborator raises with reason r the
\* call returns exactly "Error scraping jobs: " followed by r, and the
\* collaborator was invoked exactly once.
C3_ScrapeErrorReturned ==
    outcome = "raised" =>
        /\ Ended
        /\ result.kind = "returned"
        /\ Len(Text) = 1
        /\ Len(Text[1].parts) = 2
        /\ Text[1].parts[1] = "Error scraping jobs: "
        /\ Text[1].parts[2] = exc
        /\ calls = 1

C3_Witness ==
    /\ Ended /\ outcome = "raised" /\ exc = "timeout"
    /\ \A i \in 1..Len(sites) : sites[i] \in _VALID_SITES

\* C4: with only valid site ids, when the collaborator returns zero rows the
\* returned string starts with "No jobs found" and holds no listing block and
\* no summary section.
C4_EmptyResultAdvisory ==
    (outcome = "returned" /\ Len(jobs_df.rows) = 0) =>
        /\ Ended
        /\ result.kind = "returned"
        /\ Text[1].parts[1] = "No jobs found"
        /\ Positions("title") = {}
        /\ Positions("header") = {}
        /\ Positions("summary") = {}
        /\ Positions("total") = {}

C4_Witness ==
    /\ Ended /\ outcome = "returned" /\ Len(jobs_df.rows) = 0
    /\ jobs_df.columns = AllColumns /\ calls = 1

\* C5: a report on N rows holds exactly N listing blocks, the k-th block is
\* built from the k-th row and carries display index k, and the header and
\* "Total jobs found" both report N.
C5_ListingPerRowInOrder ==
    IsReport =>
        LET N == Len(jobs_df.rows)
        IN  /\ Cardinality(Positions("title")) = N
            /\ Cardinality(Positions("separator")) = N - 1
            /\ Text[1].tag = "header" /\ Text[1].parts[2] = N
            /\ Cardinality(Positions("total")) = 1
            /\ TheLine("total").parts[2] = N
            /\ \A k \in 1..N :
                 LET B == Block(k)
                     tags == {B[i].tag : i \in 1..Len(B)}
                 IN  /\ Len(B) >= 4
                     /\ B[1].tag = "title" /\ B[2].tag = "company"
                     /\ B[3].tag = "location" /\ B[4].tag = "source"
                     /\ B[1].parts[1] = k
                     /\ B[1].parts[3] = Shown(jobs_df, k, "title")
                     /\ B[2].parts[2] = Shown(jobs_df, k, "company")
                     /\ B[3].parts[2] = Shown(jobs_df, k, "location")
                     /\ \A col \in {"job_type", "date_posted", "job_url", "description",
                                    "company_industry", "job_level", "skills",
                                    "experience_range", "company_rating"} :
                            Present(jobs_df, k, col) <=> col \in tags

C5_Witness ==
    /\ IsReport /\ Len(jobs_df.rows) = 2
    /\ jobs_df.rows[1] = Full /\ jobs_df.rows[2] = OddRow

\* C6: a description longer than 300 characters is rendered as its first 300
\* characters followed by "..." (303 characters); one of at most 300
\* characters, exactly 300 included, is rendered unchanged.
C6_TruncationLaw ==
    IsReport =>
        /\ Cardinality(Positions("title")) = Len(jobs_df.rows)
        /\ \A k \in 1..Len(jobs_df.rows) :
             Present(jobs_df, k, "description") =>
                LET d == jobs_df.rows[k].description.v
                    B == Block(k)
                    at == {i \in 1..Len(B) : B[i].tag = "description"}
                    shown == B[CHOOSE i \in at : TRUE].parts[2]
                IN  /\ Cardinality(at) = 1
                    /\ Len(d) > 300 =>
                         /\ Len(shown) = 303
                         /\ \A i \in 1..300 : shown[i] = d[i]
                         /\ \A i \in 301..303 : shown[i] = "."
                    /\ Len(d) <= 300 => shown = d

C6_Witness ==
    /\ IsReport /\ Len(jobs_df.rows) = 1
    /\ Present(jobs_df, 1, "description")
    /\ Len(jobs_df.rows[1].description.v) = 301
    /\ Positions("description") # {}
    /\ Len(TheLine("description").parts[2]) = 303

\* C7: with M rows having both salary bounds, M = 0 gives no salary summary
\* line; M > 0 gives "Jobs with salary info: M" and an average range that is
\* the mean of those M mins and the mean of those M maxes, rounded to zero
\* decimal places (rows with one bound only count in neither mean).
C7_SalaryAggregation ==
    IsReport =>
        LET rows == jobs_df.rows
            both == {k \in 1..Len(rows) : BothBounds(jobs_df, k)}
            M == Cardinality(both)
            mins == [k \in both |-> rows[k].min_amount.v]
            maxs == [k \in both |-> rows[k].max_amount.v]
        IN  /\ M = 0 => Positions("salary_count") = {} /\ Positions("salary_avg") = {}
            /\ M > 0 =>
                 /\ Cardinality(Positions("salary_count")) = 1
                 /\ Cardinality(Positions("salary_avg")) = 1
                 /\ TheLine("salary_count").parts[2] = M
                 /\ IsRounded(TheLine("salary_avg").parts[2], SumOver(mins, both), M)
                 /\ IsRounded(TheLine("salary_avg").parts[4], SumOver(maxs, both), M)

C7_Witness ==
    /\ IsReport /\ Len(jobs_df.rows) = 2
    /\ BothBounds(jobs_df, 1) /\ jobs_df.rows[1].min_amount.v = 4
    /\ Present(jobs_df, 2, "min_amount") /\ ~Present(jobs_df, 2, "max_amount")
    /\ TheLine("salary_count").parts[2] = 1

\* C8: the "Remote jobs" count of a report is the number of rows whose remote
\* flag is set, a null flag counting as not set, and 0 when the frame has no
\* remote column.
C8_RemoteCount ==
    IsReport =>
        /\ Cardinality(Positions("remote_count")) = 1
        /\ TheLine("remote_count").parts[2]
             = Cardinality({k \in 1..Len(jobs_df.rows) : RemoteSet(jobs_df, k)})

C8_Witness ==
    /\ IsReport /\ Len(jobs_df.rows) = 2
    /\ RemoteSet(jobs_df, 1)
    /\ "is_remote" \in jobs_df.columns /\ jobs_df.rows[2].is_remote.kind = "NaN"
    /\ TheLine("remote_count").parts[2] = 1

\* the tags of the lines the listing block of row k is to hold, in order
ExpectedTags(df, k) ==
    <<"title", "company", "location", "source">>
    \o (IF Present(df, k, "job_type") THEN <<"job_type">> ELSE <<>>)
    \o (IF Present(df, k, "date_posted") THEN <<"date_posted">> ELSE <<>>)
    \o (IF BothBounds(df, k) THEN <<"salary">> ELSE <<>>)
    \o (IF RemoteSet(df, k) THEN <<"remote">> ELSE <<>>)
    \o (IF Present(df, k, "job_url") THEN <<"job_url">> ELSE <<>>)
    \o (IF Present(df, k, "description") THEN <<"description">> ELSE <<>>)
    \o (IF Present(df, k, "company_industry") THEN <<"company_industry">> ELSE <<>>)
    \o (IF Present(df, k, "job_level") THEN <<"job_level">> ELSE <<>>)
    \o (IF Present(df, k, "skills") THEN <<"skills">> ELSE <<>>)
    \o (IF Present(df, k, "experience_range") THEN <<"experience_range">> ELSE <<>>)
    \o (IF Present(df, k, "company_rating") THEN <<"company_rating">> ELSE <<>>)

\* C9: every listing block is title, company, location, source, then the lines
\* of the optional attributes in the fixed order, a line being there exactly
\* when its attribute is present (salary: both bounds); an absent attribute
\* adds no line.
C9_BlockLinesIffPresent ==
    IsReport =>
        /\ Cardinality(Positions("title")) = Len(jobs_df.rows)
        /\ \A k \in 1..Len(jobs_df.rows) : BlockTags(k) = ExpectedTags(jobs_df, k)

\* C10: in a report, the number of listing blocks holding the line "Remote work
\* available" equals the "Remote jobs" count, null remote flags included.
C10_RemoteMarkerAgreesWithCount ==
    IsReport =>
        Cardinality(Positions("remote")) = TheLine("remote_count").parts[2]

====
